---- MODULE Spec2Model ----
(***************************************************************************)
(* The two-pass data-driven login runner of pytest_framework.              *)
(*                                                                         *)
(* One run of Auto_Test: setUp reads the spreadsheet and opens the log and *)
(* the browser, testlogin / test_login attempts every record once, queues  *)
(* the failures in data_twice, attempts the queued records once more and   *)
(* logs the second failures, tearDown closes the browser.                  *)
(*                                                                         *)
(* Three variants of the runner are modelled:                              *)
(*   "gray"   Test_Case/RC/login_test_resolve.py (mode selector from stdin)*)
(*   "fixed"  bak/RC_login_resolution.py, bak/test_rc4_login.py (one fixed *)
(*            marker, the login step returns the confirmation text)        *)
(*   "rc2"    Test_Case/RC/test_rc2_login.py (one fixed marker, the value  *)
(*            of the login step is assigned to self.driver)                *)
(*   "module" old_version.py (first-pass failures are logged at INFO)      *)
(*                                                                         *)
(* old_version.py builds data and data_twice when the module is imported;  *)
(* for the one run of a fresh process that is the state setUp builds in    *)
(* the other variants, and it is modelled in SetUp.  In the "fixed" and    *)
(* "module" variants the confirmation text is the value the login step     *)
(* returns; in the "gray" and "rc2" variants it is read by find_element    *)
(* afterwards.                                                             *)
(* old_version.py also puts self.name into its messages; the log entries   *)
(* keep the level and the record fields.                                   *)
(***************************************************************************)
EXTENDS Integers, Sequences, FiniteSets, TLC

VARIABLES
    variant,     \* which runner file is executed
    workbook,    \* the spreadsheet on disk
    gray,        \* self.gray, the mode selector typed at the prompt
    data,        \* self.data, the records read from the sheet
    data_twice,  \* self.data_twice, the retry queue
    twice_src,   \* history: the row of data each queue entry was appended for
    log,         \* the entries of the log file, in order
    console,     \* the notices printed to the console, in order
    pc,          \* position of the run
    i,           \* index of the first-pass loop
    j,           \* index of the second-pass loop
    hist,        \* history: per row of data, the results of its attempts
    navs,        \* number of driver.get calls made
    raised,      \* an exception left the run
    driverOpen,  \* a browser session is open
    driver,      \* self.driver, the object the attempts are made with
    run,         \* number of the run within the process
    pool,        \* the test cases of the suite run by the threaded runner
    probe        \* the last application of a helper function, with its result

vars == <<variant, workbook, gray, data, data_twice, twice_src, log, console,
          pc, i, j, hist, navs, raised, driverOpen, driver, run, pool, probe>>

\* the state outside the run of one test case
aux == <<run, pool, probe>>

\* the state of the run of one test case
runVars == <<variant, workbook, gray, data, data_twice, twice_src, log,
             console, pc, i, j, hist, navs, raised, driverOpen, driver>>

----------------------------------------------------------------------------
(* Bounds *)

MaxRows == 3
MaxText == 2
MaxRuns == 2

----------------------------------------------------------------------------
(* Texts: page titles and element texts are strings over a small alphabet *)

Chars == {"a", "b"}

Texts == UNION {[1..n -> Chars] : n \in 0..MaxText}

\* find_element raised NoSuchElementException: no text was read
NoElement == <<"NoSuchElementException">>

\* Python's `needle in hay` on strings
Contains(hay, needle) ==
    \E s \in 0..(Len(hay) - Len(needle)) :
        SubSeq(hay, s + 1, s + Len(needle)) = needle

\* "Resolution Center"
TitleMarker == <<"b">>

\* "I'm ready to submit" / "00003195"
ReadyMarker == <<"a", "b">>

\* "Seel protection overview"
OverviewMarker == <<"b", "a">>

----------------------------------------------------------------------------
(* The spreadsheet and read_data *)

SheetName == "RC"

Header == <<"channel", "email", "order">>

Records == { <<"web", "a@x.com", "111">>, <<"web", "b@x.com", "222">> }

RowSeqs == UNION {[1..n -> Records] : n \in 0..MaxRows}

\* a workbook with one sheet: an empty sheet, or a header row and data rows
Workbooks ==
    [exists : {FALSE}, name : {SheetName}, rows : {<<>>}]
    \cup
    [exists : {TRUE}, name : {SheetName, "Sheet1"},
     rows : {<<>>} \cup {<<Header>> \o rs : rs \in RowSeqs}]

SheetMissingNotice == "sheet does not exist"

\* mutant: iter_rows(min_row=1), the header row is read as a record
read_data_WithHeader(wb, sheet_name) ==
    IF wb.name = sheet_name THEN wb.rows ELSE <<>>

\* mutant: a missing sheet falls back to the workbook's only sheet
read_data_AnySheet(wb, sheet_name) ==
    SubSeq(wb.rows, 2, Len(wb.rows))

\* mutant: iter_rows(min_row=3), the first data row is skipped
read_data_FromThirdRow(wb, sheet_name) ==
    IF wb.name = sheet_name
    THEN SubSeq(wb.rows, 3, Len(wb.rows))
    ELSE <<>>

\* all_results of read_data for a workbook that could be opened
read_data(wb, sheet_name) ==
    IF wb.name = sheet_name
    THEN SubSeq(wb.rows, 2, Len(wb.rows))
    ELSE <<>>

\* what read_data prints
read_data_prints(wb, sheet_name) ==
    IF wb.name = sheet_name THEN <<>> ELSE <<SheetMissingNotice>>

\* load_workbook is called outside the try block: it raises for a missing file
read_data_raises(wb) == ~wb.exists

\* the workbook operations of one read_data call, in order: load_workbook,
\* workbook[sheet_name], iter_rows, and workbook.close() in the finally clause
read_data_calls(wb, sheet_name) ==
    IF ~wb.exists THEN <<"load_workbook">>
    ELSE IF wb.name = sheet_name
         THEN <<"load_workbook", "getitem", "iter_rows", "close">>
         ELSE <<"load_workbook", "getitem", "close">>

----------------------------------------------------------------------------
(* One attempt *)

Variants == {"gray", "fixed", "rc2", "module"}

GrayInputs == {"0", "1", "2"}

\* what the browser does in one attempt
Outcomes ==
    [nav : BOOLEAN, title : Texts, login : BOOLEAN, elem : Texts \cup {NoElement}]

\* the attempt compares the confirmation text with a marker
Compares(v, g) == v # "gray" \/ g \in {"0", "1"}

Marker(v, g) == IF v = "gray" /\ g = "1" THEN OverviewMarker ELSE ReadyMarker

\* the try body raises: driver.get, assertIn on the title, the login step,
\* find_element, assertIn(self.element, marker)
AttemptRaises(v, g, o) ==
    \/ ~o.nav
    \/ ~Contains(o.title, TitleMarker)
    \/ ~o.login
    \/ /\ Compares(v, g)
       /\ \/ o.elem = NoElement
          \/ ~Contains(Marker(v, g), o.elem)

\* result of a first-pass attempt
Attempt1(v, g, o) ==
    IF AttemptRaises(v, g, o) THEN "fail"
    ELSE IF Compares(v, g) THEN "pass"
    ELSE "break"

\* result of a second-pass attempt
Attempt2(v, g, o) ==
    IF AttemptRaises(v, g, o) THEN "fail"
    ELSE IF Compares(v, g) THEN "pass"
    ELSE "unchecked"

----------------------------------------------------------------------------
(* Queue and log *)

\* mutant: the append is not inside the except clause
Pass1Queue_Always(q, r, res) == Append(q, r)

\* mutant: insert(0, ...) instead of append
Pass1Queue_Front(q, r, res) == IF res = "fail" THEN <<r>> \o q ELSE q

\* except Exception: self.data_twice.append([channel,email,order])
Pass1Queue(q, r, res) == IF res = "fail" THEN Append(q, r) ELSE q

InfoEntry(text) == [level |-> "INFO", msg |-> <<text>>, src |-> 0]

\* mutant: the first-pass log call is active in every variant
Pass1Log_AllVariants(l, v, r, k, res) ==
    IF res = "fail"
    THEN Append(l, [level |-> "INFO", msg |-> <<"FAIL", r[1], r[2], r[3]>>, src |-> k])
    ELSE l

\* old_version.py logs a first-pass failure at INFO; src is the row (history)
Pass1Log(l, v, r, k, res) ==
    IF v = "module" /\ res = "fail"
    THEN Append(l, [level |-> "INFO", msg |-> <<"FAIL", r[1], r[2], r[3]>>, src |-> k])
    ELSE l

\* mutant: the order number is left out of the message
ErrorEntry_NoOrder(r, k) ==
    [level |-> "ERROR", msg |-> <<"twice_fail", r[1], "FAIL", r[2]>>, src |-> k]

\* self.log.error("twice_fail : " + channel + " FAIL -- data : " + email + " " + order)
ErrorEntry(r, k) ==
    [level |-> "ERROR", msg |-> <<"twice_fail", r[1], "FAIL", r[2], r[3]>>, src |-> k]

\* mutant: the error is logged for every second-pass attempt
Pass2Log_Always(l, r, k, res) == Append(l, ErrorEntry(r, k))

\* except Exception: self.log.error(...)
Pass2Log(l, r, k, res) == IF res = "fail" THEN Append(l, ErrorEntry(r, k)) ELSE l

\* the log file as log_tool finds it
LogFiles ==
    [exists : {FALSE}, removable : {TRUE}, entries : {<<>>}]
    \cup
    [exists : {TRUE}, removable : BOOLEAN,
     entries : {<<>>, <<InfoEntry("start")>>, <<InfoEntry("start"), InfoEntry("finish")>>}]

\* the file a run leaves behind, which the next log_tool call can remove
LogFile(l) == [exists |-> l # <<>>, removable |-> TRUE, entries |-> l]

\* log_tool: the entries in the file when the FileHandler (append mode) is
\* attached: os.remove empties it, a failed os.remove is only printed
log_tool(f) == IF f.exists /\ f.removable THEN <<>> ELSE f.entries

\* what log_tool prints about the old file
log_tool_prints(f) ==
    IF ~f.exists THEN "no old log file"
    ELSE IF f.removable THEN "old log file removed"
    ELSE "removing the old log file failed"

\* the browser session the n-th call of webdriver.Chrome returns
Session(n) == <<"chrome", n>>

NoDriver == <<"none">>

\* resolve_login(driver, email, order): the value the callers assign to
\* self.driver and go on to use as the session
resolve_login(d) == d

\* the login step is reached: driver.get and the title check went through
LoginCalled(o) == o.nav /\ Contains(o.title, TitleMarker)

\* mutant: the text resolution_login returns is assigned to self.driver
DriverAfterAttempt_Text(v, d, o) ==
    IF LoginCalled(o) /\ o.login
    THEN IF v \in {"gray", "rc2"} THEN resolve_login(d) ELSE o.elem
    ELSE d

\* self.driver after an attempt: self.driver=resolve_login(self.driver,...)
\* in login_test_resolve.py and test_rc2_login.py, self.element=... elsewhere
DriverAfterAttempt(v, d, o) ==
    IF v \in {"gray", "rc2"} /\ LoginCalled(o) /\ o.login
    THEN resolve_login(d)
    ELSE d

\* no helper function has been applied
NoProbe == [fn |-> "none"]

\* if not self.data_twice: return
AfterPass1(q) == IF q = <<>> THEN "tearDown" ELSE "pass2"

----------------------------------------------------------------------------
(* The run *)

Init ==
    /\ variant \in Variants
    /\ workbook \in Workbooks
    /\ gray = ""
    /\ data = <<>>
    /\ data_twice = <<>>
    /\ twice_src = <<>>
    /\ log = <<>>
    /\ console = <<>>
    /\ pc = "setUp"
    /\ i = 1
    /\ j = 1
    /\ hist = <<>>
    /\ navs = 0
    /\ raised = FALSE
    /\ driverOpen = FALSE
    /\ driver = NoDriver
    /\ run = 1
    /\ pool = <<>>
    /\ probe = NoProbe

\* setUp: read_data, data_twice = [], log_tool, log.info('start'), input(), Chrome
SetUp ==
    /\ pc = "setUp"
    /\ IF read_data_raises(workbook)
       THEN /\ raised' = TRUE
            /\ pc' = "done"
            /\ UNCHANGED <<gray, data, data_twice, twice_src, log, console,
                           hist, driverOpen, driver>>
       ELSE /\ data' = read_data(workbook, SheetName)
            /\ console' = console \o read_data_prints(workbook, SheetName)
            /\ data_twice' = IF variant = "module" THEN data_twice ELSE <<>>
            /\ twice_src' = IF variant = "module" THEN twice_src ELSE <<>>
            /\ log' = Append(log_tool(LogFile(log)), InfoEntry("start"))
            /\ IF variant = "gray"
               THEN gray' \in GrayInputs
               ELSE gray' = gray
            /\ driverOpen' = TRUE
            /\ driver' = Session(run)
            /\ hist' = [k \in 1..Len(data') |-> <<>>]
            /\ pc' = "pass1"
            /\ UNCHANGED raised
    /\ UNCHANGED <<variant, workbook, i, j, navs>>
    /\ UNCHANGED aux

\* one iteration of the first loop
Pass1Step ==
    /\ pc = "pass1"
    /\ i <= Len(data)
    /\ \E o \in Outcomes :
        LET r == data[i]
            res == Attempt1(variant, gray, o)
        IN  /\ navs' = navs + 1
            /\ hist' = [hist EXCEPT ![i] = Append(@, res)]
            /\ data_twice' = Pass1Queue(data_twice, r, res)
            /\ twice_src' = Pass1Queue(twice_src, i, res)
            /\ log' = Pass1Log(log, variant, r, i, res)
            /\ driver' = DriverAfterAttempt(variant, driver, o)
            /\ IF res = "break"
               THEN /\ console' = Append(console, "illegal input")
                    /\ pc' = AfterPass1(data_twice')
                    /\ i' = i
               ELSE /\ console' = console
                    /\ pc' = pc
                    /\ i' = i + 1
    /\ UNCHANGED <<variant, workbook, gray, data, j, raised, driverOpen>>
    /\ UNCHANGED aux

\* the first loop is exhausted: if not self.data_twice: return
Pass1End ==
    /\ pc = "pass1"
    /\ i > Len(data)
    /\ pc' = AfterPass1(data_twice)
    /\ UNCHANGED <<variant, workbook, gray, data, data_twice, twice_src, log,
                   console, i, j, hist, navs, raised, driverOpen, driver>>
    /\ UNCHANGED aux

\* one iteration of the second loop
Pass2Step ==
    /\ pc = "pass2"
    /\ j <= Len(data_twice)
    /\ \E o \in Outcomes :
        LET r == data_twice[j]
            k == twice_src[j]
            res == Attempt2(variant, gray, o)
        IN  /\ navs' = navs + 1
            /\ hist' = IF k \in DOMAIN hist
                       THEN [hist EXCEPT ![k] = Append(@, res)]
                       ELSE hist
            /\ log' = Pass2Log(log, r, k, res)
            /\ driver' = DriverAfterAttempt(variant, driver, o)
            /\ j' = j + 1
    /\ UNCHANGED <<variant, workbook, gray, data, data_twice, twice_src,
                   console, pc, i, raised, driverOpen>>
    /\ UNCHANGED aux

\* the second loop is exhausted
Pass2End ==
    /\ pc = "pass2"
    /\ j > Len(data_twice)
    /\ pc' = "tearDown"
    /\ UNCHANGED <<variant, workbook, gray, data, data_twice, twice_src, log,
                   console, i, j, hist, navs, raised, driverOpen, driver>>
    /\ UNCHANGED aux

\* tearDown: self.driver.quit(); self.log.info('finish')
TearDown ==
    /\ pc = "tearDown"
    /\ driverOpen' = FALSE
    /\ log' = Append(log, InfoEntry("finish"))
    /\ pc' = "done"
    /\ UNCHANGED <<variant, workbook, gray, data, data_twice, twice_src,
                   console, i, j, hist, navs, raised, driver>>
    /\ UNCHANGED aux

Next ==
    \/ SetUp
    \/ Pass1Step
    \/ Pass1End
    \/ Pass2Step
    \/ Pass2End
    \/ TearDown

Spec == Init /\ [][Next]_vars

----------------------------------------------------------------------------
(* Runs in which setUp or the test body raises *)

\* setUp raises after webdriver.Chrome returned (self.driver.implicitly_wait):
\* unittest then runs neither the test nor tearDown
SetUpWaitRaises ==
    /\ pc = "setUp"
    /\ ~read_data_raises(workbook)
    /\ data' = read_data(workbook, SheetName)
    /\ console' = console \o read_data_prints(workbook, SheetName)
    /\ data_twice' = IF variant = "module" THEN data_twice ELSE <<>>
    /\ twice_src' = IF variant = "module" THEN twice_src ELSE <<>>
    /\ log' = Append(log_tool(LogFile(log)), InfoEntry("start"))
    /\ IF variant = "gray"
       THEN gray' \in GrayInputs
       ELSE gray' = gray
    /\ driverOpen' = TRUE
    /\ driver' = Session(run)
    /\ hist' = [k \in 1..Len(data') |-> <<>>]
    /\ raised' = TRUE
    /\ pc' = "done"
    /\ UNCHANGED <<variant, workbook, i, j, navs>>
    /\ UNCHANGED aux

\* an exception leaves the test body (the for statement cannot unpack a row
\* into channel,email,order, outside the try): unittest goes on to tearDown
BodyRaises ==
    /\ pc \in {"pass1", "pass2"}
    /\ raised' = TRUE
    /\ pc' = "tearDown"
    /\ UNCHANGED <<variant, workbook, gray, data, data_twice, twice_src, log,
                   console, i, j, hist, navs, driverOpen, driver>>
    /\ UNCHANGED aux

SessionNext ==
    \/ Next
    \/ SetUpWaitRaises
    \/ BodyRaises

SessionSpec == Init /\ [][SessionNext]_vars

----------------------------------------------------------------------------
(* Several runs in one process *)

\* the test is run again in the same process: a new Auto_Test instance has
\* no attributes yet, the names of the module old_version.py (data,
\* data_twice) keep their values, the log file stays on disk.  The queue
\* entries kept from earlier runs belong to no row of the new run (0).
NextRun ==
    /\ pc = "done"
    /\ run < MaxRuns
    /\ run' = run + 1
    /\ pc' = "setUp"
    /\ i' = 1
    /\ j' = 1
    /\ hist' = <<>>
    /\ navs' = 0
    /\ raised' = FALSE
    /\ gray' = ""
    /\ driver' = NoDriver
    /\ data' = IF variant = "module" THEN data ELSE <<>>
    /\ data_twice' = IF variant = "module" THEN data_twice ELSE <<>>
    /\ twice_src' = IF variant = "module"
                    THEN [n \in 1..Len(twice_src) |-> 0]
                    ELSE <<>>
    /\ UNCHANGED <<variant, workbook, log, console, driverOpen, pool, probe>>

RunsNext ==
    \/ Next
    \/ NextRun

RunsSpec == Init /\ [][RunsNext]_vars

----------------------------------------------------------------------------
(* The pytest variant: one test case per record (test_rc_login.py) *)

\* result of test_login for one record: which except clause is reached
FastAttempt(o) ==
    IF ~o.nav THEN "other"
    ELSE IF ~Contains(o.title, TitleMarker) THEN "assert"
    ELSE IF ~o.login \/ o.elem = NoElement THEN "noelem"
    ELSE IF ~Contains(o.elem, ReadyMarker) THEN "assert"
    ELSE "pass"

\* self.log.error(f"{channel} FAIL -- data : {email} {order}, error: ...")
FastLog(l, r, k, res) ==
    IF res = "pass"
    THEN l
    ELSE Append(l, [level |-> "ERROR",
                    msg |-> <<r[1], "FAIL", r[2], r[3], res>>, src |-> k])

\* mutant: the session stops at the first failed test case (pytest -x)
FastNextPc_FailFast(res, k, n) ==
    IF res # "pass" \/ k + 1 > n THEN "finish" ELSE "fixture"

\* pytest.main runs every collected test case, whatever the earlier results
FastNextPc(res, k, n) == IF k + 1 > n THEN "finish" ELSE "fixture"

FastInit ==
    /\ variant = "pytest"
    /\ workbook \in Workbooks
    /\ gray = ""
    /\ data = <<>>
    /\ data_twice = <<>>
    /\ twice_src = <<>>
    /\ log = <<>>
    /\ console = <<>>
    /\ pc = "collect"
    /\ i = 1
    /\ j = 1
    /\ hist = <<>>
    /\ navs = 0
    /\ raised = FALSE
    /\ driverOpen = FALSE
    /\ driver = NoDriver
    /\ run = 1
    /\ pool = <<>>
    /\ probe = NoProbe

\* collection: parametrize(read_data(...)); with records to run, the session
\* fixture init_log opens the log and writes 'start'
FastCollect ==
    /\ pc = "collect"
    /\ IF read_data_raises(workbook)
       THEN /\ raised' = TRUE
            /\ pc' = "done"
            /\ UNCHANGED <<data, console, hist, log>>
       ELSE /\ data' = read_data(workbook, SheetName)
            /\ console' = console \o read_data_prints(workbook, SheetName)
            /\ hist' = [k \in 1..Len(data') |-> <<>>]
            /\ IF data' = <<>>
               THEN pc' = "done" /\ log' = log
               ELSE /\ pc' = "fixture"
                    /\ log' = Append(log_tool(LogFile(log)), InfoEntry("start"))
            /\ UNCHANGED raised
    /\ UNCHANGED <<variant, workbook, gray, data_twice, twice_src, i, j, navs,
                   driverOpen, driver>>
    /\ UNCHANGED aux

\* setup_and_teardown before its yield: a new browser for the test case
FastFixture ==
    /\ pc = "fixture"
    /\ driverOpen' = TRUE
    /\ driver' = Session(i)
    /\ pc' = "test"
    /\ UNCHANGED <<variant, workbook, gray, data, data_twice, twice_src, log,
                   console, i, j, hist, navs, raised>>
    /\ UNCHANGED aux

\* test_login for record i
FastTest ==
    /\ pc = "test"
    /\ \E o \in Outcomes :
        LET res == FastAttempt(o)
        IN  /\ navs' = navs + 1
            /\ hist' = [hist EXCEPT ![i] = Append(@, res)]
            /\ log' = FastLog(log, data[i], i, res)
    /\ pc' = "teardown"
    /\ UNCHANGED <<variant, workbook, gray, data, data_twice, twice_src,
                   console, i, j, raised, driverOpen, driver>>
    /\ UNCHANGED aux

\* setup_and_teardown after its yield: self.driver.quit(); then the next
\* test case
FastTeardown ==
    /\ pc = "teardown"
    /\ driverOpen' = FALSE
    /\ pc' = FastNextPc(hist[i][1], i, Len(data))
    /\ i' = i + 1
    /\ UNCHANGED <<variant, workbook, gray, data, data_twice, twice_src, log,
                   console, j, hist, navs, raised, driver>>
    /\ UNCHANGED aux

\* init_log after its yield: log.info('finish')
FastFinish ==
    /\ pc = "finish"
    /\ log' = Append(log, InfoEntry("finish"))
    /\ pc' = "done"
    /\ UNCHANGED <<variant, workbook, gray, data, data_twice, twice_src,
                   console, i, j, hist, navs, raised, driverOpen, driver>>
    /\ UNCHANGED aux

FastNext ==
    \/ FastCollect
    \/ FastFixture
    \/ FastTest
    \/ FastTeardown
    \/ FastFinish

FastSpec == FastInit /\ [][FastNext]_vars

----------------------------------------------------------------------------
(* The unified entry point: the suite run by a threaded runner (run.py) *)

\* HTMLReport.TestRunner(..., thread_count=4)
thread_count == 4

\* the test cases return_suite loads into the suite
SuiteCases == {"RC_login_resolution", "MD_dashboard_onboarding"}

\* number of records a test case of the suite attempts
SuiteRecords == IF workbook.exists THEN Len(read_data(workbook, SheetName)) ELSE 0

\* the test cases that occupy a thread of the runner
Running == {t \in DOMAIN pool : pool[t].state \in {"idle", "attempting"}}

SuiteInit ==
    /\ variant = "fixed"
    /\ workbook \in Workbooks
    /\ gray = ""
    /\ data = <<>>
    /\ data_twice = <<>>
    /\ twice_src = <<>>
    /\ log = <<>>
    /\ console = <<>>
    /\ pc = "suite"
    /\ i = 1
    /\ j = 1
    /\ hist = <<>>
    /\ navs = 0
    /\ raised = FALSE
    /\ driverOpen = FALSE
    /\ driver = NoDriver
    /\ run = 1
    /\ pool = [t \in SuiteCases |-> [state |-> "waiting", k |-> 0]]
    /\ probe = NoProbe

\* a free thread of the runner takes a test case of the suite
SuiteStart(t) ==
    /\ pool[t].state = "waiting"
    /\ Cardinality(Running) < thread_count
    /\ pool' = [pool EXCEPT ![t].state = "idle"]
    /\ UNCHANGED <<runVars, run, probe>>

\* the thread of test case t starts the attempt of its next record
SuiteBeginAttempt(t) ==
    /\ pool[t].state = "idle"
    /\ pool[t].k < SuiteRecords
    /\ pool' = [pool EXCEPT ![t].state = "attempting"]
    /\ UNCHANGED <<runVars, run, probe>>

\* the attempt ends
SuiteEndAttempt(t) ==
    /\ pool[t].state = "attempting"
    /\ pool' = [pool EXCEPT ![t].state = "idle", ![t].k = @ + 1]
    /\ UNCHANGED <<runVars, run, probe>>

\* the test case has attempted all its records and frees its thread
SuiteFinish(t) ==
    /\ pool[t].state = "idle"
    /\ pool[t].k = SuiteRecords
    /\ pool' = [pool EXCEPT ![t].state = "done"]
    /\ UNCHANGED <<runVars, run, probe>>

SuiteNext ==
    \E t \in SuiteCases :
        \/ SuiteStart(t)
        \/ SuiteBeginAttempt(t)
        \/ SuiteEndAttempt(t)
        \/ SuiteFinish(t)

SuiteSpec == SuiteInit /\ [][SuiteNext]_vars

----------------------------------------------------------------------------
(* The helper functions, applied to every input within the bounds *)

\* the verdict of one attempt: Attempt1 in the two-pass variants, the
\* except clause reached in the pytest variant
Verdict(v, g, o) == IF v = "pytest" THEN FastAttempt(o) ELSE Attempt1(v, g, o)

\* the marker the confirmation text is compared with
ExpectedMarker(v, g) == IF v = "pytest" THEN ReadyMarker ELSE Marker(v, g)

\* where the compared text comes from: the value of the login step, or a
\* find_element call of the runner after resolve_login returned
TextSource(v) == IF v \in {"gray", "rc2"} THEN "find_element" ELSE "login"

\* mutant: a title mismatch is noted without leaving the try body
AttemptSteps_NoTitleStop(v, g, o) ==
    IF ~o.nav THEN <<"get">>
    ELSE IF ~o.login THEN <<"get", "title", "login">>
    ELSE IF v # "pytest" /\ ~Compares(v, g) THEN <<"get", "title", "login">>
    ELSE IF o.elem = NoElement
         THEN IF TextSource(v) = "login"
              THEN <<"get", "title", "login">>
              ELSE <<"get", "title", "login", "find">>
    ELSE IF TextSource(v) = "login"
         THEN <<"get", "title", "login", "compare">>
         ELSE <<"get", "title", "login", "find", "compare">>

\* the steps of one attempt that are executed, in order: driver.get, the
\* title check, the login step, find_element where the runner reads the text
\* itself, the comparison with the marker
AttemptSteps(v, g, o) ==
    IF ~o.nav THEN <<"get">>
    ELSE IF ~Contains(o.title, TitleMarker) THEN <<"get", "title">>
    ELSE IF ~o.login THEN <<"get", "title", "login">>
    ELSE IF v # "pytest" /\ ~Compares(v, g) THEN <<"get", "title", "login">>
    ELSE IF o.elem = NoElement
         THEN IF TextSource(v) = "login"
              THEN <<"get", "title", "login">>
              ELSE <<"get", "title", "login", "find">>
    ELSE IF TextSource(v) = "login"
         THEN <<"get", "title", "login", "compare">>
         ELSE <<"get", "title", "login", "find", "compare">>

\* the login functions: resolution_login, resolution_portal_login, MD_login
\* of bak/MD_login.py and MD_login of bak/MD_login-bak.py
LoginFns == {"resolution_login", "resolution_portal_login", "MD_login", "MD_login_bak"}

\* the find_element calls of a login function, in the order of the code
Locators(fn) ==
    CASE fn = "resolution_login" ->
           <<"login-email-input", "login-order-id-input", "login_next", "ready_to_submit">>
      [] fn = "resolution_portal_login" ->
           <<"email", "orderNumber", "Next", "Seel protection overview">>
      [] OTHER ->
           <<"email-input", "submit", "current-password", "submit", "organization", "h1">>

\* the first find_element call that does not find its element (0: none)
FirstAbsent(fn, present) ==
    IF \A k \in 1..Len(Locators(fn)) : k \in present
    THEN 0
    ELSE CHOOSE k \in 1..Len(Locators(fn)) :
             k \notin present /\ \A m \in 1..(k - 1) : m \in present

\* a login function on a page where the find_element calls in `present`
\* find their element: the calls made, what is raised, what else is done
LoginStep(fn, present) ==
    LET a == FirstAbsent(fn, present)
        n == IF a = 0 THEN Len(Locators(fn)) ELSE a
    IN  [lookups |-> [k \in 1..n |-> k],
         raises  |-> IF a = 0 THEN "none"
                     ELSE IF fn = "MD_login_bak" THEN "AssertionError"
                     ELSE "NoSuchElementException",
         effects |-> IF a # 0 /\ fn = "MD_login_bak"
                     THEN <<"save_screenshot", "allure.attach.file">>
                     ELSE <<>>]

ProbeInit ==
    /\ variant = "fixed"
    /\ workbook = [exists |-> FALSE, name |-> SheetName, rows |-> <<>>]
    /\ gray = ""
    /\ data = <<>>
    /\ data_twice = <<>>
    /\ twice_src = <<>>
    /\ log = <<>>
    /\ console = <<>>
    /\ pc = "probe"
    /\ i = 1
    /\ j = 1
    /\ hist = <<>>
    /\ navs = 0
    /\ raised = FALSE
    /\ driverOpen = FALSE
    /\ driver = NoDriver
    /\ run = 1
    /\ pool = <<>>
    /\ probe = NoProbe

\* one attempt, for every variant, mode selector and browser behaviour
ProbeAttempt ==
    /\ probe = NoProbe
    /\ \E v \in Variants \cup {"pytest"}, o \in Outcomes :
         \E g \in IF v = "gray" THEN GrayInputs ELSE {""} :
           probe' = [fn |-> "attempt", v |-> v, g |-> g, o |-> o,
                     verdict |-> Verdict(v, g, o),
                     steps |-> AttemptSteps(v, g, o),
                     source |-> TextSource(v)]
    /\ UNCHANGED <<runVars, run, pool>>

\* one call of a login function, for every page
ProbeLogin ==
    /\ probe = NoProbe
    /\ \E fn \in LoginFns :
         \E present \in SUBSET (1..Len(Locators(fn))) :
           probe' = [fn |-> "login", name |-> fn, present |-> present,
                     result |-> LoginStep(fn, present)]
    /\ UNCHANGED <<runVars, run, pool>>

\* one call of log_tool, for every prior state of the log file
ProbeLogTool ==
    /\ probe = NoProbe
    /\ \E f \in LogFiles :
           probe' = [fn |-> "log_tool", file |-> f, entries |-> log_tool(f),
                     prints |-> log_tool_prints(f)]
    /\ UNCHANGED <<runVars, run, pool>>

\* the same record, mode selector and browser behaviour given to the body
\* of the first loop and to the body of the second loop
ProbePasses ==
    /\ probe = NoProbe
    /\ \E v \in Variants, o \in Outcomes :
         \E g \in IF v = "gray" THEN GrayInputs ELSE {""} :
           probe' = [fn |-> "passes", v |-> v, g |-> g, o |-> o,
                     first |-> Attempt1(v, g, o),
                     second |-> Attempt2(v, g, o)]
    /\ UNCHANGED <<runVars, run, pool>>

\* what test_login raises: nothing when the attempt passes; otherwise the
\* except clause logs, saves and attaches a screenshot and raises an
\* AssertionError, unless save_screenshot or allure.attach.file raises first
FastRaises(res, shot) ==
    IF res = "pass" THEN "none"
    ELSE IF shot THEN "AssertionError"
    ELSE "ScreenshotError"

\* one call of test_login of the pytest variant, for every record, browser
\* behaviour and result of the screenshot calls of the except clauses
ProbeTestLogin ==
    /\ probe = NoProbe
    /\ \E r \in Records, o \in Outcomes, shot \in BOOLEAN :
           probe' = [fn |-> "test_login", r |-> r, o |-> o, shot |-> shot,
                     res |-> FastAttempt(o),
                     log |-> FastLog(<<>>, r, 1, FastAttempt(o)),
                     raises |-> FastRaises(FastAttempt(o), shot)]
    /\ UNCHANGED <<runVars, run, pool>>

\* the keys of the merchant dictionary
SchemaKeys ==
    {"website", "return_policy", "support_email", "support_url",
     "return_policy_url", "return_portal_url", "is_via_email", "research_notes"}

\* what the agent run gives research_merchant: an exception, an output
\* without {...}, an output whose {...} does not parse, or an output whose
\* {...} parses to an object with the keys the language model chose to write
AgentOutcomes ==
    [kind : {"exception", "no_json", "bad_json"}, keys : {{}}]
    \cup [kind : {"json"}, keys : SUBSET SchemaKeys]

\* research_merchant: the parsed object is returned as it is; the three
\* fallback dictionaries are written out with all keys
research_merchant(oc) ==
    [raises |-> FALSE,
     keys   |-> IF oc.kind = "json" THEN oc.keys ELSE SchemaKeys,
     notes  |-> CASE oc.kind = "json"      -> "from the agent"
                  [] oc.kind = "no_json"   -> "Could not parse structured response"
                  [] oc.kind = "bad_json"  -> "Research completed but response parsing failed"
                  [] OTHER                 -> "Research failed"]

\* one call of research_merchant, for every agent outcome
ProbeResearch ==
    /\ probe = NoProbe
    /\ \E oc \in AgentOutcomes :
           probe' = [fn |-> "research_merchant", oc |-> oc,
                     result |-> research_merchant(oc)]
    /\ UNCHANGED <<runVars, run, pool>>

\* what the network gives browse_webpage: playwright can be imported, the
\* browser launches, the page steps (new_page .. building the response)
\* succeed, browser.close() succeeds, the requests path succeeds
BrowseOutcomes ==
    [import : BOOLEAN, launch : BOOLEAN, page : BOOLEAN, close : BOOLEAN,
     requests : BOOLEAN]

\* mutant: browser.close() at the end of the try body, not in a finally clause
browse_with_playwright_CloseOnSuccess(oc) ==
    IF ~oc.import THEN [calls |-> <<"import">>, ok |-> FALSE]
    ELSE IF ~oc.launch THEN [calls |-> <<"import", "launch">>, ok |-> FALSE]
    ELSE IF ~oc.page
         THEN [calls |-> <<"import", "launch", "page">>, ok |-> FALSE]
    ELSE [calls |-> <<"import", "launch", "page", "close">>, ok |-> oc.close]

\* _browse_with_playwright: the steps taken and whether a response is
\* returned (otherwise Exception("Playwright browsing failed: ...") is raised)
browse_with_playwright(oc) ==
    IF ~oc.import THEN [calls |-> <<"import">>, ok |-> FALSE]
    ELSE IF ~oc.launch THEN [calls |-> <<"import", "launch">>, ok |-> FALSE]
    ELSE [calls |-> <<"import", "launch", "page", "close">>,
          ok    |-> oc.page /\ oc.close]

\* _browse_with_requests: every exception is turned into the returned text
browse_with_requests(oc) ==
    [calls |-> <<"requests.get">>,
     text  |-> IF oc.requests THEN "Content (Requests)" ELSE "Error browsing"]

\* browse_webpage
browse_webpage(oc) ==
    LET pw == browse_with_playwright(oc)
        rq == browse_with_requests(oc)
    IN  IF pw.ok
        THEN [calls |-> pw.calls, text |-> "Content (Playwright)", raises |-> FALSE]
        ELSE [calls |-> pw.calls \o rq.calls, text |-> rq.text, raises |-> FALSE]

\* one call of browse_webpage, for every behaviour of browser and network
ProbeBrowse ==
    /\ probe = NoProbe
    /\ \E oc \in BrowseOutcomes :
           probe' = [fn |-> "browse_webpage", oc |-> oc,
                     result |-> browse_webpage(oc)]
    /\ UNCHANGED <<runVars, run, pool>>

\* where a keyword of the purpose is found in a link's text or in its URL
KeywordHits == {"high", "medium", "none"}

\* the <a href> elements of a page that pass the prefix filter, by the
\* keywords found in their text and in their URL
LinkKinds == [text : KeywordHits, url : KeywordHits]

\* score of a link: 100 or 50 from the text, then 80 from the URL, or 30
\* if the score is still 0
LinkScore(l) ==
    LET t == CASE l.text = "high" -> 100 [] l.text = "medium" -> 50 [] OTHER -> 0
    IN  IF l.url = "high" THEN t + 80
        ELSE IF t = 0 /\ l.url = "medium" THEN 30
        ELSE t

\* the priority written in front of the link ("SKIP": the link is left out)
LinkPriority(l) ==
    IF LinkScore(l) >= 100 THEN "HIGH"
    ELSE IF LinkScore(l) >= 50 THEN "MEDIUM"
    ELSE IF LinkScore(l) >= 20 THEN "LOW"
    ELSE "SKIP"

\* links[:10]
MaxLinksReturned == 10

Kept(l) == LinkPriority(l) # "SKIP"

\* the sort key x.count(red circle): 1 for a HIGH link, 0 for the others
HasHighMark(l) == LinkPriority(l) = "HIGH"

HasNoHighMark(l) == LinkPriority(l) # "HIGH"

\* links.sort(key=..., reverse=True): a stable sort on the key
SortByHighMark(ls) == SelectSeq(ls, HasHighMark) \o SelectSeq(ls, HasNoHighMark)

\* _extract_relevant_links on the links of a page, in document order
extract_relevant_links(page) ==
    LET sorted == SortByHighMark(SelectSeq(page, Kept))
    IN  SubSeq(sorted, 1, IF Len(sorted) < MaxLinksReturned
                          THEN Len(sorted) ELSE MaxLinksReturned)

\* longest run of equal links a page starts with
MaxPad == 10

\* links after the run
MaxTail == 2

\* the pages: a run of equal links followed by up to MaxTail links
Pages ==
    { [n \in 1..k |-> l] \o t :
        k \in 0..MaxPad, l \in LinkKinds,
        t \in UNION {[1..m -> LinkKinds] : m \in 0..MaxTail} }

\* rank of a priority, HIGH first
PriorityRank(pr) ==
    CASE pr = "HIGH" -> 1 [] pr = "MEDIUM" -> 2 [] pr = "LOW" -> 3 [] OTHER -> 4

\* one call of _extract_relevant_links, for every page
ProbeLinks ==
    /\ probe = NoProbe
    /\ \E page \in Pages :
           probe' = [fn |-> "extract_relevant_links", page |-> page,
                     links |-> extract_relevant_links(page)]
    /\ UNCHANGED <<runVars, run, pool>>

\* what the model service gives search_web: ChatOpenAI(...) can be built,
\* the call with web_search_preview, with web_search, the plain call succeed
SearchOutcomes ==
    [ctor : BOOLEAN, preview : BOOLEAN, search : BOOLEAN, plain : BOOLEAN]

\* mutant: the second except clause does not call the model again
search_web_NoPlainCall(oc) ==
    IF ~oc.ctor THEN [calls |-> <<"ChatOpenAI">>, text |-> "fallback", raises |-> FALSE]
    ELSE IF oc.preview
         THEN [calls |-> <<"ChatOpenAI", "web_search_preview">>,
               text |-> "web_search_preview", raises |-> FALSE]
    ELSE IF oc.search
         THEN [calls |-> <<"ChatOpenAI", "web_search_preview", "web_search">>,
               text |-> "web_search", raises |-> FALSE]
    ELSE [calls |-> <<"ChatOpenAI", "web_search_preview", "web_search">>,
          text |-> "fallback", raises |-> FALSE]

\* search_web: the calls made and the text returned (named after the call
\* whose response it holds; "fallback" for the texts of the outer except)
search_web(oc) ==
    IF ~oc.ctor THEN [calls |-> <<"ChatOpenAI">>, text |-> "fallback", raises |-> FALSE]
    ELSE IF oc.preview
         THEN [calls |-> <<"ChatOpenAI", "web_search_preview">>,
               text |-> "web_search_preview", raises |-> FALSE]
    ELSE IF oc.search
         THEN [calls |-> <<"ChatOpenAI", "web_search_preview", "web_search">>,
               text |-> "web_search", raises |-> FALSE]
    ELSE [calls |-> <<"ChatOpenAI", "web_search_preview", "web_search", "plain">>,
          text |-> IF oc.plain THEN "plain" ELSE "fallback", raises |-> FALSE]

\* one call of search_web, for every behaviour of the model service
ProbeSearch ==
    /\ probe = NoProbe
    /\ \E oc \in SearchOutcomes, context \in {"merchant", "order", "general"} :
           probe' = [fn |-> "search_web", oc |-> oc, context |-> context,
                     result |-> search_web(oc)]
    /\ UNCHANGED <<runVars, run, pool>>

\* the labels of host names
Labels == {"target", "shop", "com"}

\* longest host name, in labels
MaxLabels == 3

\* host names of two or more labels, as the sequence of their labels
Hosts == UNION {[1..n -> Labels] : n \in 2..MaxLabels}

\* a text as the sequence of its parts: "https://", "www", "." and labels
Dotted(h) ==
    [n \in 1..(2 * Len(h) - 1) |-> IF n % 2 = 1 THEN h[(n + 1) \div 2] ELSE "."]

\* the four spellings of a host: https://www.h, https://h, www.h, h
Spelling(h, sp) ==
    CASE sp = 1 -> <<"https://", "www", ".">> \o Dotted(h)
      [] sp = 2 -> <<"https://">> \o Dotted(h)
      [] sp = 3 -> <<"www", ".">> \o Dotted(h)
      [] OTHER  -> Dotted(h)

\* str.capitalize() on the labels
Capitalize(w) ==
    CASE w = "target" -> "Target" [] w = "shop" -> "Shop" [] w = "com" -> "Com"
      [] w = "www" -> "Www" [] OTHER -> w

\* s.startswith('www.')
StartsWithWww(s) == Len(s) >= 2 /\ s[1] = "www" /\ s[2] = "."

\* urlparse(url).netloc: what follows the "//" of a scheme; empty when the
\* text has no scheme
netloc(s) == IF s # <<>> /\ s[1] = "https://" THEN Tail(s) ELSE <<>>

IsLabel(w) == w # "."

\* domain.split('.') for a dotted name; [''] for the empty text
SplitDots(s) == IF s = <<>> THEN <<"">> ELSE SelectSeq(s, IsLabel)

\* extract_merchant_name_from_url; a domain of fewer than two labels is
\* returned as it is, which for these inputs is the empty text
extract_merchant_name_from_url(s) ==
    LET domain == IF StartsWithWww(netloc(s))
                  THEN SubSeq(netloc(s), 3, Len(netloc(s)))
                  ELSE netloc(s)
        parts == SplitDots(domain)
    IN  IF Len(parts) >= 2 THEN Capitalize(parts[Len(parts) - 1])
        ELSE IF domain = <<>> THEN ""
        ELSE domain[1]

\* validate_input
validate_input(s) ==
    IF s # <<>> /\ (s[1] = "https://" \/ StartsWithWww(s))
    THEN [name |-> extract_merchant_name_from_url(s), type |-> "website"]
    ELSE IF "." \in {s[n] : n \in 1..Len(s)}
    THEN [name |-> extract_merchant_name_from_url(<<"https://">> \o s),
          type |-> "domain"]
    ELSE [name |-> IF s = <<>> THEN "" ELSE s[1], type |-> "name"]

\* one call of validate_input, for every host and spelling
ProbeValidate ==
    /\ probe = NoProbe
    /\ \E h \in Hosts, sp \in 1..4 :
           probe' = [fn |-> "validate_input", host |-> h, sp |-> sp,
                     result |-> validate_input(Spelling(h, sp))]
    /\ UNCHANGED <<runVars, run, pool>>

\* one call of read_data, for every workbook
ProbeReadData ==
    /\ probe = NoProbe
    /\ \E wb \in Workbooks :
           probe' = [fn |-> "read_data", wb |-> wb,
                     raises |-> read_data_raises(wb),
                     rows |-> read_data(wb, SheetName),
                     calls |-> read_data_calls(wb, SheetName)]
    /\ UNCHANGED <<runVars, run, pool>>

ProbeNext ==
    \/ ProbeAttempt
    \/ ProbeSearch
    \/ ProbeValidate
    \/ ProbeLinks
    \/ ProbeResearch
    \/ ProbeBrowse
    \/ ProbeReadData
    \/ ProbeTestLogin
    \/ ProbePasses
    \/ ProbeLogin
    \/ ProbeLogTool

ProbeSpec == ProbeInit /\ [][ProbeNext]_vars

----------------------------------------------------------------------------
(* Derived notions *)

Range(s) == {s[n] : n \in 1..Len(s)}

Rows == DOMAIN hist

\* the error-level (terminal-failure) entries written for row k
ErrorsFor(k) == {n \in 1..Len(log) : log[n].level = "ERROR" /\ log[n].src = k}

ErrorEntries == {n \in 1..Len(log) : log[n].level = "ERROR"}

\* the record state of section 4.1, read off the attempts made for the record
RecordState(h) ==
    CASE h = <<>>               -> "PENDING"
      [] h = <<"pass">>         -> "SUCCESS"
      [] h = <<"fail">>         -> "QUEUED_FOR_RETRY"
      [] h = <<"fail", "pass">> -> "SUCCESS"
      [] h = <<"fail", "fail">> -> "TERMINAL_FAILURE"
      [] h = <<"break">>        -> "ATTEMPTED_PASS1"
      [] OTHER                  -> "ATTEMPTED_PASS2"

\* the run is over and no exception left it
Finished == pc = "done" /\ ~raised

\* the workbook opens and the requested sheet is not in it
SheetMissing == workbook.exists /\ workbook.name # SheetName

\* the workbook opens and holds no data row for the requested sheet
EmptyInput == workbook.exists /\ (workbook.name # SheetName \/ Len(workbook.rows) <= 1)

----------------------------------------------------------------------------
(* Claims *)

\* C1: in one run every input record is attempted (driver.get is called for
\* it) at least once and at most twice, for every mode selector typed.
C1_EveryRecordOnceOrTwice ==
    /\ \A k \in Rows : Len(hist[k]) <= 2
    /\ Finished => \A k \in Rows : Len(hist[k]) >= 1

\* C2: a record whose first-pass attempt passes is never appended to
\* data_twice and is never attempted a second time.
C2_FirstPassSuccessNeverRetried ==
    \A k \in Rows :
        (hist[k] # <<>> /\ hist[k][1] = "pass")
            => (k \notin Range(twice_src) /\ Len(hist[k]) = 1)

\* C2 witness: a run with a second pass ended, and some record passed first time
C2_Witness ==
    /\ Finished
    /\ data_twice # <<>>
    /\ \E k \in Rows : hist[k] = <<"pass">>

\* C3: a record whose first-pass attempt fails is in data_twice exactly
\* once, and data_twice lists the failed records in input order.
C3_QueueOnceInFailureOrder ==
    /\ Len(data_twice) = Len(twice_src)
    /\ \A n \in 1..Len(twice_src) :
           /\ twice_src[n] \in Rows
           /\ data_twice[n] = data[twice_src[n]]
    /\ \A k \in Rows :
           (hist[k] # <<>> /\ hist[k][1] = "fail")
               => Cardinality({n \in 1..Len(twice_src) : twice_src[n] = k}) = 1
    /\ \A m, n \in 1..Len(twice_src) : m < n => twice_src[m] < twice_src[n]

\* C3 witness: two records failed the first pass, with a passing one between
C3_Witness ==
    /\ Len(twice_src) >= 2
    /\ \E k \in Rows : hist[k] = <<"pass">> /\ twice_src[1] < k /\ k < twice_src[2]

\* C4: a record that fails both passes has exactly one error-level entry,
\* which names its channel, email and order; no record has more than one.
C4_OneTerminalEntry ==
    \A k \in Rows :
        /\ Cardinality(ErrorsFor(k)) <= 1
        /\ hist[k] = <<"fail", "fail">> =>
              /\ Cardinality(ErrorsFor(k)) = 1
              /\ \A n \in ErrorsFor(k) :
                     {data[k][1], data[k][2], data[k][3]} \subseteq Range(log[n].msg)

\* C4 witness: the run ended with a record that failed both passes
C4_Witness ==
    /\ Finished
    /\ \E k \in Rows : hist[k] = <<"fail", "fail">>

\* C5: with no input record the run makes no driver.get call, writes no
\* terminal-failure entry, raises nothing and goes straight to its end.
C5_EmptyInputNoNavigation ==
    (EmptyInput /\ pc # "setUp") =>
        /\ data = <<>>
        /\ navs = 0
        /\ ErrorEntries = {}
        /\ ~raised
        /\ pc \in {"pass1", "tearDown", "done"}

\* C5 witness: a run over a sheet that holds only its header row ended
C5_Witness ==
    /\ pc = "done"
    /\ workbook.exists
    /\ workbook.name = SheetName
    /\ workbook.rows = <<Header>>

\* C6: a record that fails pass 1 and passes pass 2 is SUCCESS with no
\* terminal-failure entry; if every record passes in pass 1 or pass 2 the
\* log holds no terminal-failure entry.
C6_RetrySuccessNotLogged ==
    /\ \A k \in Rows :
           hist[k] = <<"fail", "pass">> =>
               (RecordState(hist[k]) = "SUCCESS" /\ ErrorsFor(k) = {})
    /\ (Finished /\ \A k \in Rows : hist[k] \in {<<"pass">>, <<"fail", "pass">>})
           => ErrorEntries = {}

\* C6 witness: record 1 passed in pass 1, record 2 failed pass 1 and passed pass 2
C6_Witness ==
    /\ Finished
    /\ Len(data) = 2
    /\ hist[1] = <<"pass">>
    /\ hist[2] = <<"fail", "pass">>

\* C7 as stated: with the sheet missing, read_data prints a notice and
\* returns no record, and the run ends with no entry in the log file.
C7_MissingSheetNoLogEntries ==
    (SheetMissing /\ pc = "done") =>
        /\ SheetMissingNotice \in Range(console)
        /\ data = <<>>
        /\ ~raised
        /\ log = <<>>

\* C7 amended: with the sheet missing, read_data prints a notice and returns
\* no record, and the run ends without a navigation, its log file holding
\* the 'start' and 'finish' entries of setUp and tearDown and nothing else.
C7_MissingSheetOnlyStartFinish ==
    (SheetMissing /\ pc = "done") =>
        /\ SheetMissingNotice \in Range(console)
        /\ data = <<>>
        /\ ~raised
        /\ navs = 0
        /\ log = <<InfoEntry("start"), InfoEntry("finish")>>

\* C7 witness: a run ended whose workbook holds rows under another sheet name
C7_Witness ==
    /\ SheetMissing
    /\ pc = "done"
    /\ Len(workbook.rows) > 1

\* C8: a missing sheet and a missing file are both reported on the console
\* and give an empty record set; no exception leaves the run.
C8_NoDataSourceErrorPropagates ==
    ((~workbook.exists \/ workbook.name # SheetName) /\ pc # "setUp") =>
        /\ ~raised
        /\ data = <<>>
        /\ console # <<>>

\* C9: a record's attempts follow PENDING -> ATTEMPTED_PASS1 ->
\* {SUCCESS | QUEUED_FOR_RETRY} -> ATTEMPTED_PASS2 -> {SUCCESS |
\* TERMINAL_FAILURE}: a finished first attempt leaves it SUCCESS or
\* QUEUED_FOR_RETRY, only a queued record is attempted again, and a second
\* attempt leaves it SUCCESS or TERMINAL_FAILURE for good.
C9_RecordStateMachine ==
    \A k \in Rows :
        /\ Len(hist[k]) <= 2
        /\ Len(hist[k]) = 1 =>
               RecordState(hist[k]) \in {"SUCCESS", "QUEUED_FOR_RETRY"}
        /\ Len(hist[k]) = 2 =>
               /\ RecordState(SubSeq(hist[k], 1, 1)) = "QUEUED_FOR_RETRY"
               /\ RecordState(hist[k]) \in {"SUCCESS", "TERMINAL_FAILURE"}

\* C10: the second pass starts only when every input record has had its
\* first attempt, and it attempts the queued records once each in queue
\* order, whatever the earlier second attempts gave.
C10_SecondPassAfterFullFirstPass ==
    /\ pc = "pass2" => \A k \in Rows : hist[k] # <<>>
    /\ pc = "pass2" =>
           \A n \in 1..Len(twice_src) :
               Len(hist[twice_src[n]]) = IF n < j THEN 2 ELSE 1
    /\ (pc \in {"tearDown", "done"} /\ ~raised) =>
           \A n \in 1..Len(twice_src) : Len(hist[twice_src[n]]) = 2

\* C11: whenever a browser session was acquired, it is closed when the run
\* has ended, also when the test body or a later step of setUp raised.
C11_SessionAlwaysClosed ==
    pc = "done" => ~driverOpen

C13_OnlyTerminalEntries ==
    \A n \in 1..Len(log) :
        log[n].src # 0 =>
            /\ log[n].level = "ERROR"
            /\ hist[log[n].src] = <<"fail", "fail">>

\* C13 amended: a success writes no entry and the only error-level entries
\* are terminal-failure entries; a first-pass failure writes no entry,
\* except in old_version.py where it writes one INFO entry for the record.
C13_TerminalOrOldVersionInfo ==
    /\ \A n \in 1..Len(log) :
           log[n].src # 0 =>
               \/ /\ log[n].level = "ERROR"
                  /\ hist[log[n].src] = <<"fail", "fail">>
               \/ /\ log[n].level = "INFO"
                  /\ variant = "module"
                  /\ hist[log[n].src][1] = "fail"
    /\ \A k \in Rows :
           Cardinality({n \in 1..Len(log) : log[n].src = k /\ log[n].level = "INFO"})
               = IF variant = "module" /\ hist[k] # <<>> /\ hist[k][1] = "fail"
                 THEN 1 ELSE 0

\* C13 witness: old_version.py ended a run in which a record failed pass 1
\* and passed pass 2, and another passed at once
C13_Witness ==
    /\ Finished
    /\ variant = "module"
    /\ \E k \in Rows : hist[k] = <<"fail", "pass">>
    /\ \E k \in Rows : hist[k] = <<"pass">>

\* C14: data_twice is empty when a run starts, and the queue a run iterates
\* in its second pass holds only records that failed the first pass of
\* that run, for every sequence of runs in one process.
C14_QueueFreshEachRun ==
    /\ (pc = "pass1" /\ i = 1 /\ navs = 0) => data_twice = <<>>
    /\ pc = "pass2" =>
           \A n \in 1..Len(twice_src) :
               /\ twice_src[n] \in Rows
               /\ hist[twice_src[n]] # <<>>
               /\ hist[twice_src[n]][1] = "fail"

StepRank(st) ==
    CASE st = "get" -> 1 [] st = "title" -> 2 [] st = "login" -> 3
      [] st = "find" -> 4 [] OTHER -> 5

\* C17: an attempt is judged successful only when the confirmation text
\* contains (or equals) the expected marker, in the two-pass variants and in
\* the pytest variant alike.
C17_SuccessOnlyIfTextHasMarker ==
    (probe.fn = "attempt" /\ probe.verdict = "pass") =>
        /\ probe.o.elem # NoElement
        /\ Contains(probe.o.elem, ExpectedMarker(probe.v, probe.g))

\* C18: a login function makes its find_element calls once each in the
\* order of the code, and when an element is absent it stops there and
\* propagates that failure, with no retry and no side effect of its own.
C18_LoginStepPropagates ==
    probe.fn = "login" =>
        LET res == probe.result
            n == Len(res.lookups)
        IN  /\ \A k \in 1..n : res.lookups[k] = k
            /\ \A k \in 1..(n - 1) : k \in probe.present
            /\ (\E k \in 1..Len(Locators(probe.name)) : k \notin probe.present) =>
                   /\ n \notin probe.present
                   /\ res.raises = "NoSuchElementException"
                   /\ res.effects = <<>>

\* C19: when log_tool returns, the log file holds no entry written before
\* the call, whether the file was absent, present or present and not
\* removable.
C19_LogFileFreshAfterLogTool ==
    probe.fn = "log_tool" => probe.entries = <<>>

\* C20 as stated: the steps of an attempt are navigate, verify page
\* identity, invoke the login function, compare; the login function is
\* invoked only after navigation and identity check succeeded, and the text
\* compared is one the login function returned in the same attempt.
C20_ComparesLoginReturnValue ==
    probe.fn = "attempt" =>
        LET st == probe.steps
        IN  /\ \A a, b \in 1..Len(st) : a < b => StepRank(st[a]) < StepRank(st[b])
            /\ "login" \in Range(st) =>
                   (probe.o.nav /\ Contains(probe.o.title, TitleMarker))
            /\ "compare" \in Range(st) =>
                   /\ "login" \in Range(st)
                   /\ probe.o.login
                   /\ probe.o.elem # NoElement
                   /\ probe.source = "login"

\* C20 amended: same order and same condition on the login function; the
\* text compared was obtained in the same attempt after the login function
\* returned: its return value, or in login_test_resolve.py and
\* test_rc2_login.py the text the runner reads with find_element.
C20_ComparesTextOfSameAttempt ==
    probe.fn = "attempt" =>
        LET st == probe.steps
        IN  /\ st # <<>> /\ st[1] = "get"
            /\ \A a, b \in 1..Len(st) : a < b => StepRank(st[a]) < StepRank(st[b])
            /\ "title" \in Range(st) => probe.o.nav
            /\ "login" \in Range(st) =>
                   (probe.o.nav /\ Contains(probe.o.title, TitleMarker))
            /\ "find" \in Range(st) =>
                   ("login" \in Range(st) /\ probe.o.login /\ probe.source = "find_element")
            /\ "compare" \in Range(st) =>
                   /\ "login" \in Range(st)
                   /\ probe.o.login
                   /\ probe.o.elem # NoElement
                   /\ probe.source = "find_element" <=> "find" \in Range(st)
            /\ probe.verdict = "pass" => "compare" \in Range(st)

\* C20 witness: an attempt of test_rc2_login.py that reached the comparison
C20_Witness ==
    /\ probe.fn = "attempt"
    /\ probe.v = "rc2"
    /\ probe.steps = <<"get", "title", "login", "find", "compare">>
    /\ probe.verdict = "fail"

C22_SuccessOnlyIfCompared ==
    (Finished /\ variant = "gray") =>
        \A k \in Rows :
            ErrorsFor(k) = {} =>
                (hist[k] # <<>> /\ hist[k][Len(hist[k])] = "pass")

\* C23: when the run is over every input record is in SUCCESS or
\* TERMINAL_FAILURE: none is PENDING, merely attempted or still queued.
C23_EveryRecordSettled ==
    Finished =>
        \A k \in Rows :
            RecordState(hist[k]) \in {"SUCCESS", "TERMINAL_FAILURE"}

\* C24: in the pytest variant a failed attempt of any kind writes exactly
\* one error entry naming channel, email and order and test_login raises an
\* AssertionError; a passing attempt writes nothing and raises nothing.
C24_FailureLoggedOnceThenAssertionError ==
    probe.fn = "test_login" =>
        IF probe.res = "pass"
        THEN probe.log = <<>> /\ probe.raises = "none"
        ELSE /\ Len(probe.log) = 1
             /\ probe.log[1].level = "ERROR"
             /\ \A n \in 1..3 : probe.r[n] \in Range(probe.log[1].msg)
             /\ probe.raises = "AssertionError"

C26_ResultHasAllSchemaKeys ==
    probe.fn = "research_merchant" =>
        /\ ~probe.result.raises
        /\ SchemaKeys \subseteq probe.result.keys

\* the positions of step c in the sequence of steps cs
Positions(cs, c) == {n \in 1..Len(cs) : cs[n] = c}

\* C27: browse_webpage never raises; the requests path is used only after
\* the Playwright path failed and then exactly once; a failure of the
\* requests path is returned as an 'Error browsing' text; a browser that
\* was launched is closed on every exit.
C27_BrowseNeverRaises ==
    probe.fn = "browse_webpage" =>
        LET oc == probe.oc
            cs == probe.result.calls
            pwOk == oc.import /\ oc.launch /\ oc.page /\ oc.close
        IN  /\ ~probe.result.raises
            /\ Cardinality(Positions(cs, "requests.get")) = IF pwOk THEN 0 ELSE 1
            /\ \A n \in Positions(cs, "requests.get") : n = Len(cs)
            /\ pwOk => probe.result.text = "Content (Playwright)"
            /\ (~pwOk /\ oc.requests) => probe.result.text = "Content (Requests)"
            /\ (~pwOk /\ ~oc.requests) => probe.result.text = "Error browsing"
            /\ (oc.import /\ oc.launch) =>
                   /\ Cardinality(Positions(cs, "close")) = 1
                   /\ \A n \in Positions(cs, "close") :
                          \E m \in Positions(cs, "launch") : m < n
            /\ ~(oc.import /\ oc.launch) => Positions(cs, "close") = {}

\* C27 witness: the page steps failed after the launch, the browser was
\* closed and the requests path failed too
C27_Witness ==
    /\ probe.fn = "browse_webpage"
    /\ probe.oc.launch /\ ~probe.oc.page /\ ~probe.oc.requests
    /\ probe.result.calls = <<"import", "launch", "page", "close", "requests.get">>
    /\ probe.result.text = "Error browsing"

\* the qualifying links of the page that are not in the returned list,
\* counted by kind
Dropped(page, links) ==
    {l \in LinkKinds :
        /\ Kept(l)
        /\ Cardinality({n \in 1..Len(page) : page[n] = l})
             > Cardinality({n \in 1..Len(links) : links[n] = l})}

\* C28: _extract_relevant_links returns at most 10 links, every HIGH link
\* before every MEDIUM link and every MEDIUM link before every LOW link,
\* and a dropped link never has a higher priority than a returned one.
C28_LinksSortedByPriority ==
    probe.fn = "extract_relevant_links" =>
        LET ls == probe.links
        IN  /\ Len(ls) <= MaxLinksReturned
            /\ \A a, b \in 1..Len(ls) :
                   a < b => PriorityRank(LinkPriority(ls[a]))
                              <= PriorityRank(LinkPriority(ls[b]))
            /\ \A d \in Dropped(probe.page, ls) :
                   \A n \in 1..Len(ls) :
                       PriorityRank(LinkPriority(d))
                           >= PriorityRank(LinkPriority(ls[n]))

\* C29: search_web never raises; it calls web_search_preview, then
\* web_search, then the plain model, each only after the one before failed
\* and at most once, returns the response of the first that succeeds, and
\* returns a fallback text when all of them or the construction fail.
C29_SearchFallbackChain ==
    probe.fn = "search_web" =>
        LET oc == probe.oc
            cs == probe.result.calls
        IN  /\ ~probe.result.raises
            /\ \A c \in {"web_search_preview", "web_search", "plain"} :
                   Cardinality(Positions(cs, c)) <= 1
            /\ Positions(cs, "web_search_preview") # {} <=> oc.ctor
            /\ Positions(cs, "web_search") # {} <=> (oc.ctor /\ ~oc.preview)
            /\ Positions(cs, "plain") # {} <=> (oc.ctor /\ ~oc.preview /\ ~oc.search)
            /\ \A a \in Positions(cs, "web_search_preview"),
                  b \in Positions(cs, "web_search") : a < b
            /\ \A b \in Positions(cs, "web_search"),
                  c \in Positions(cs, "plain") : b < c
            /\ probe.result.text =
                   IF ~oc.ctor THEN "fallback"
                   ELSE IF oc.preview THEN "web_search_preview"
                   ELSE IF oc.search THEN "web_search"
                   ELSE IF oc.plain THEN "plain"
                   ELSE "fallback"

\* C29 witness: both tool calls failed and the plain model call answered
C29_Witness ==
    /\ probe.fn = "search_web"
    /\ probe.result.calls = <<"ChatOpenAI", "web_search_preview", "web_search", "plain">>
    /\ probe.result.text = "plain"

\* C30: for a host h the inputs https://www.h, https://h, www.h and h all
\* give the capitalised main label of h, which is not empty, with input
\* type website for the first three and domain for the last.
C30_SpellingsGiveSameName ==
    probe.fn = "validate_input" =>
        /\ probe.result.name = Capitalize(probe.host[Len(probe.host) - 1])
        /\ probe.result.name # ""
        /\ probe.result.type = IF probe.sp = 4 THEN "domain" ELSE "website"

====
